---- MODULE Spec2Model ----
(***************************************************************************)
(* Event Management API (src/main.py): the record store handlers of the    *)
(* four collections, the media upload / latest-media handlers, and the     *)
(* identifier validator and input sanitizer they share.                    *)
(*                                                                         *)
(* Strings are sequences of one-character strings, byte contents are       *)
(* sequences of numbers, a stored document is a function from field names  *)
(* to values, and a collection is the sequence of its documents in         *)
(* insertion order.                                                        *)
(***************************************************************************)
EXTENDS Integers, Sequences, FiniteSets, TLC

(* ------------------------------ bounds -------------------------------- *)
\* number of hex digits of an identifier string (24 for a real ObjectId)
OidLen == 2
\* the first key the identifier generator hands out
FirstId == 170
\* how many documents are inserted in one run, all collections together
MaxInserts == 2
\* the largest value of the millisecond clock
MaxClock == 1
\* how many update_one calls are in flight at the same time
MaxInflight == 2

\* the key that is never handed out
LastId == FirstId + MaxInserts

(* ------------------------- program constants -------------------------- *)
\* to_list(100)
ListCap == 100

(* ------------------------------ strings ------------------------------- *)
\* Python None
NoneVal == <<"None">>

Range(s) == {s[i] : i \in 1..Len(s)}

\* str.startswith
StartsWith(s, p) == Len(s) >= Len(p) /\ SubSeq(s, 1, Len(p)) = p

HexDigits == <<"0","1","2","3","4","5","6","7","8","9","a","b","c","d","e","f">>

HexChars ==
  {"0","1","2","3","4","5","6","7","8","9","a","b","c","d","e","f","A","B","C","D","E","F"}

HexVal(ch) ==
  CASE ch = "0" -> 0 [] ch = "1" -> 1 [] ch = "2" -> 2 [] ch = "3" -> 3
    [] ch = "4" -> 4 [] ch = "5" -> 5 [] ch = "6" -> 6 [] ch = "7" -> 7
    [] ch = "8" -> 8 [] ch = "9" -> 9
    [] ch \in {"a", "A"} -> 10 [] ch \in {"b", "B"} -> 11 [] ch \in {"c", "C"} -> 12
    [] ch \in {"d", "D"} -> 13 [] ch \in {"e", "E"} -> 14 [] ch \in {"f", "F"} -> 15

RECURSIVE FromHex(_)
\* bytes.fromhex, read as a number
FromHex(s) ==
  IF s = <<>> THEN 0
  ELSE 16 * FromHex(SubSeq(s, 1, Len(s) - 1)) + HexVal(s[Len(s)])

RECURSIVE ToHex(_, _)
\* str(ObjectId): the lower-case hex digits of the key
ToHex(n, len) ==
  IF len = 0 THEN <<>>
  ELSE Append(ToHex(n \div 16, len - 1), HexDigits[(n % 16) + 1])

OidStr(oid) == ToHex(oid, OidLen)

Upper(s) ==
  [i \in 1..Len(s) |->
     CASE s[i] = "a" -> "A" [] s[i] = "b" -> "B" [] s[i] = "c" -> "C"
       [] s[i] = "d" -> "D" [] s[i] = "e" -> "E" [] s[i] = "f" -> "F"
       [] OTHER -> s[i]]

(* --------------------------- security helpers ------------------------- *)
\* sanitize_string: the value, or HTTP 400 "Invalid characters detected in input"
sanitize_string(value) ==
  IF value = NoneVal THEN [raised |-> FALSE, value |-> value]
  ELSE IF "$" \in Range(value) \/ "." \in Range(value)
       THEN [raised |-> TRUE, value |-> value]
       ELSE [raised |-> FALSE, value |-> value]

\* validate_object_id without the length check of ObjectId
validate_object_id_anylen(id) ==
  IF \A i \in 1..Len(id) : id[i] \in HexChars
  THEN [raised |-> FALSE, oid |-> FromHex(id)]
  ELSE [raised |-> TRUE, oid |-> 0]

\* validate_object_id: ObjectId(id), or HTTP 400 "Invalid ID format" on InvalidId
validate_object_id(id) ==
  IF Len(id) = OidLen /\ \A i \in 1..Len(id) : id[i] \in HexChars
  THEN [raised |-> FALSE, oid |-> FromHex(id)]
  ELSE [raised |-> TRUE, oid |-> 0]

(* ------------------------------- inputs ------------------------------- *)
\* request bodies a client sends, per data model (Event, Attendee, Venue, Booking)
EventPayloads ==
  { [title |-> <<"t","1">>, description |-> <<"d","1">>, date |-> <<"1","0">>,
     venue_id |-> <<"v","1">>, max_attendees |-> 10],
    [title |-> <<"t","2">>, description |-> <<"d","2">>, date |-> <<"2","0">>,
     venue_id |-> <<"v","2">>, max_attendees |-> 20],
    [title |-> <<"t","1">>, description |-> <<"d",".">>, date |-> <<"1","0">>,
     venue_id |-> <<"$","v">>, max_attendees |-> 10],
    [title |-> <<"t","1">>, description |-> <<"d","1">>, date |-> <<"1",".","5">>,
     venue_id |-> <<"v","1">>, max_attendees |-> 10] }

AttendeePayloads ==
  { [firstName |-> <<"f","1">>, lastName |-> <<"l","1">>, email |-> <<"a","@","b">>,
     phone |-> NoneVal],
    [firstName |-> <<"f","2">>, lastName |-> <<"l","2">>, email |-> <<"c","@","d">>,
     phone |-> <<"5","5">>],
    [firstName |-> <<"f",".">>, lastName |-> <<"$","l">>, email |-> <<"a","@","b">>,
     phone |-> NoneVal],
    [firstName |-> <<"f","1">>, lastName |-> <<"l","1">>, email |-> <<"a","@","b",".","c">>,
     phone |-> <<"$","5">>] }

VenuePayloads ==
  { [name |-> <<"n","1">>, address |-> <<"a","1">>, capacity |-> 100],
    [name |-> <<"n","2">>, address |-> <<"a","2">>, capacity |-> 200],
    [name |-> <<"n","$">>, address |-> <<"a",".","1">>, capacity |-> 100] }

BookingPayloads ==
  { [event_id |-> <<"e","1">>, attendee_id |-> <<"p","1">>, ticket_type |-> <<"v","i","p">>,
     quantity |-> 1],
    [event_id |-> <<"e","2">>, attendee_id |-> <<"p","2">>, ticket_type |-> <<"s","t","d">>,
     quantity |-> 2],
    [event_id |-> <<"$","e">>, attendee_id |-> <<"p",".">>, ticket_type |-> <<"v",".","p">>,
     quantity |-> 1] }

Collections == {"events", "attendees", "venues", "bookings"}

Payloads(c) ==
  CASE c = "events" -> EventPayloads
    [] c = "attendees" -> AttendeePayloads
    [] c = "venues" -> VenuePayloads
    [] c = "bookings" -> BookingPayloads

\* the fields of each data model that are declared str (or Optional[str])
StrFields(c) ==
  CASE c = "events" -> {"title", "description", "date", "venue_id"}
    [] c = "attendees" -> {"firstName", "lastName", "email", "phone"}
    [] c = "venues" -> {"name", "address"}
    [] c = "bookings" -> {"event_id", "attendee_id", "ticket_type"}

\* path identifiers a client sends: the string form of the keys around the
\* generator's range, one of them in upper case, and malformed strings
ProbeKeys == FirstId..LastId

MalformedIds ==
  { [i \in 1..(OidLen - 1) |-> "a"],
    [i \in 1..(OidLen + 1) |-> "a"],
    [i \in 1..OidLen |-> IF i = 1 THEN "g" ELSE "a"] }

IdInputs == {OidStr(k) : k \in ProbeKeys} \cup {Upper(OidStr(FirstId))} \cup MalformedIds

(* ------------------------------- state -------------------------------- *)
VARIABLES
  store,     \* db.events, db.attendees, db.venues, db.bookings: documents in insertion order
  media,     \* db.media: documents in insertion order
  nextId,    \* the next ObjectId the driver generates
  now,       \* datetime.utcnow(), in the milliseconds a stored date keeps
  inflight,  \* update_one calls sent to the database and not yet applied
  last       \* the request handled last and its response

vars == <<store, media, nextId, now, inflight, last>>

NoRequest ==
  [op |-> "none", coll |-> "none", id |-> <<>>, payload |-> <<>>, status |-> 0,
   detail |-> "", touched |-> FALSE, body |-> <<>>]

\* a handled request: inputs, HTTP status, detail or message, whether the handler
\* issued a store operation, and the response body
Reply(op, c, id, p, status, detail, touched, body) ==
  [op |-> op, coll |-> c, id |-> id, payload |-> p, status |-> status,
   detail |-> detail, touched |-> touched, body |-> body]

(* --------------------------- helper functions ------------------------- *)
\* obj_to_str / list_obj_to_str: the document with its key rendered as a string
obj_to_str(document) ==
  [f \in DOMAIN document |-> IF f = "_id" THEN OidStr(document[f]) ELSE document[f]]

list_obj_to_str(documents) ==
  [i \in 1..Len(documents) |-> obj_to_str(documents[i])]

(* ----------------------------- store driver --------------------------- *)
Keys(coll) == {coll[i]["_id"] : i \in 1..Len(coll)}

Matching(coll, oid) == {i \in 1..Len(coll) : coll[i]["_id"] = oid}

First(S) == CHOOSE i \in S : \A j \in S : i <= j

\* insert_one that stores every document under the same key
insert_one_samekey(coll, doc, oid) ==
  Append(coll, [f \in DOMAIN doc \cup {"_id"} |-> IF f = "_id" THEN FirstId ELSE doc[f]])

\* insert_one: the document, with the generated key, is appended
insert_one(coll, doc, oid) ==
  Append(coll, [f \in DOMAIN doc \cup {"_id"} |-> IF f = "_id" THEN oid ELSE doc[f]])

\* find_one({"_id": oid}): the first matching document, or None
find_one(coll, oid) ==
  IF Matching(coll, oid) = {}
  THEN [found |-> FALSE, doc |-> <<>>]
  ELSE [found |-> TRUE, doc |-> coll[First(Matching(coll, oid))]]

\* update_one with upsert=True: no match inserts the fields under the key
update_one_upsert(coll, oid, fields) ==
  IF Matching(coll, oid) = {}
  THEN [coll |-> Append(coll, [f \in DOMAIN fields \cup {"_id"} |->
                                 IF f = "_id" THEN oid ELSE fields[f]]),
        matched_count |-> 0]
  ELSE LET i == First(Matching(coll, oid)) IN
       [coll |-> [coll EXCEPT ![i] =
                    [f \in DOMAIN coll[i] \cup DOMAIN fields |->
                       IF f \in DOMAIN fields THEN fields[f] ELSE coll[i][f]]],
        matched_count |-> 1]

\* update_one with $set of x.dict(exclude_none=True): a field that is None is not set
update_one_exclude_none(coll, oid, fields) ==
  IF Matching(coll, oid) = {}
  THEN [coll |-> coll, matched_count |-> 0]
  ELSE LET i == First(Matching(coll, oid)) IN
       [coll |-> [coll EXCEPT ![i] =
                    [f \in DOMAIN coll[i] \cup DOMAIN fields |->
                       IF f \in DOMAIN fields /\ ~(f = "phone" /\ fields[f] = NoneVal)
                       THEN fields[f] ELSE coll[i][f]]],
        matched_count |-> 1]

\* update_one({"_id": oid}, {"$set": fields}): every given field is set on the
\* first matching document; the collection afterwards and matched_count
update_one(coll, oid, fields) ==
  IF Matching(coll, oid) = {}
  THEN [coll |-> coll, matched_count |-> 0]
  ELSE LET i == First(Matching(coll, oid)) IN
       [coll |-> [coll EXCEPT ![i] =
                    [f \in DOMAIN coll[i] \cup DOMAIN fields |->
                       IF f \in DOMAIN fields THEN fields[f] ELSE coll[i][f]]],
        matched_count |-> 1]

\* delete_one({"_id": oid}): the first matching document is removed; the
\* collection afterwards and deleted_count
delete_one(coll, oid) ==
  IF Matching(coll, oid) = {}
  THEN [coll |-> coll, deleted_count |-> 0]
  ELSE LET i == First(Matching(coll, oid)) IN
       [coll |-> SubSeq(coll, 1, i - 1) \o SubSeq(coll, i + 1, Len(coll)),
        deleted_count |-> 1]

RECURSIVE KSubsets(_, _)
KSubsets(S, k) ==
  IF k = 0 THEN {{}}
  ELSE UNION { {T \cup {x} : T \in KSubsets({y \in S : y > x}, k - 1)} : x \in S }

\* to_list(None): every document
to_list_nocap(coll, length) == {coll}

\* find().to_list(length): at most length documents; which ones the cursor drops
\* when there are more is the store's choice
to_list(coll, length) ==
  LET n == Len(coll)
      k == IF n > length THEN n - length ELSE 0
  IN { SelectSeq(coll, LAMBDA d : d["_id"] \notin {coll[i]["_id"] : i \in D}) :
         D \in KSubsets(1..n, k) }

(* --------------------------- record handlers -------------------------- *)
\* documents are created and replaced in one collection at a time: a POST or
\* PUT goes to the collection that holds documents, or to any when none does
Busy == {c \in Collections : store[c] # <<>>}

Active(c) == Busy \subseteq {c}

\* x.f = sanitize_string(x.f) for each listed field: does one of them raise
Rejected(p, fields) == \E f \in fields : sanitize_string(p[f]).raised

\* the model after the assignments x.f = sanitize_string(x.f)
Sanitized(p, fields) ==
  [f \in DOMAIN p |-> IF f \in fields THEN sanitize_string(p[f]).value ELSE p[f]]

\* POST /{collection}: sanitize the listed fields, insert_one(x.dict()), return the id
Post(c, fields, p, msg) ==
  /\ Active(c)
  /\ IF Rejected(p, fields)
       THEN /\ last' = Reply("create", c, <<>>, p, 400,
                             "Invalid characters detected in input", FALSE, <<>>)
            /\ UNCHANGED <<store, media, nextId, now, inflight>>
       ELSE /\ nextId < LastId
            /\ store' = [store EXCEPT ![c] = insert_one(@, Sanitized(p, fields), nextId)]
            /\ nextId' = nextId + 1
            /\ last' = Reply("create", c, <<>>, p, 200, msg, TRUE, OidStr(nextId))
            /\ UNCHANGED <<media, now, inflight>>

\* GET /{collection}: find().to_list(100), keys rendered as strings
List(c) ==
  /\ \E docs \in to_list(store[c], ListCap) :
       last' = Reply("list", c, <<>>, <<>>, 200, "", TRUE, list_obj_to_str(docs))
  /\ UNCHANGED <<store, media, nextId, now, inflight>>

\* GET /{collection}/{id}: validate the id, find_one, 404 when there is none
Get(c, id, notfound) ==
  LET v == validate_object_id(id)
      r == find_one(store[c], v.oid)
  IN
  /\ last' =
       IF v.raised
       THEN Reply("get", c, id, <<>>, 400, "Invalid ID format", FALSE, <<>>)
       ELSE IF ~r.found
            THEN Reply("get", c, id, <<>>, 404, notfound, TRUE, <<>>)
            ELSE Reply("get", c, id, <<>>, 200, "", TRUE, obj_to_str(r.doc))
  /\ UNCHANGED <<store, media, nextId, now, inflight>>

\* PUT /{collection}/{id}: sanitize the listed fields, validate the id,
\* update_one with $set of x.dict(), 404 when matched_count is 0
Put(c, fields, id, p, updated, notfound) ==
  LET v == validate_object_id(id)
      result == update_one(store[c], v.oid, Sanitized(p, fields))
  IN
  /\ Active(c)
  /\ IF Rejected(p, fields)
       THEN /\ last' = Reply("update", c, id, p, 400,
                             "Invalid characters detected in input", FALSE, <<>>)
            /\ UNCHANGED <<store, media, nextId, now, inflight>>
       ELSE IF v.raised
       THEN /\ last' = Reply("update", c, id, p, 400, "Invalid ID format", FALSE, <<>>)
            /\ UNCHANGED <<store, media, nextId, now, inflight>>
       ELSE /\ store' = [store EXCEPT ![c] = result.coll]
            /\ last' = IF result.matched_count = 0
                         THEN Reply("update", c, id, p, 404, notfound, TRUE, <<>>)
                         ELSE Reply("update", c, id, p, 200, updated, TRUE, <<>>)
            /\ UNCHANGED <<media, nextId, now, inflight>>

\* DELETE /{collection}/{id}: validate the id, delete_one, 404 when deleted_count is 0
Delete(c, id, deleted, notfound) ==
  LET v == validate_object_id(id)
      result == delete_one(store[c], v.oid)
  IN
  /\ IF v.raised
       THEN /\ last' = Reply("delete", c, id, <<>>, 400, "Invalid ID format", FALSE, <<>>)
            /\ UNCHANGED <<store, media, nextId, now, inflight>>
       ELSE /\ store' = [store EXCEPT ![c] = result.coll]
            /\ last' = IF result.deleted_count = 0
                         THEN Reply("delete", c, id, <<>>, 404, notfound, TRUE, <<>>)
                         ELSE Reply("delete", c, id, <<>>, 200, deleted, TRUE, <<>>)
            /\ UNCHANGED <<media, nextId, now, inflight>>

\* the fields each handler passes through sanitize_string
CreateSanitized(c) ==
  CASE c = "events" -> {"title", "description", "venue_id"}
    [] c = "attendees" -> {"firstName", "lastName"}
    [] c = "venues" -> {"name", "address"}
    [] c = "bookings" -> {"event_id", "attendee_id", "ticket_type"}

UpdateSanitized(c) ==
  CASE c = "events" -> {"title", "description", "venue_id"}
    [] c = "attendees" -> {"firstName", "lastName", "email", "phone"}
    [] c = "venues" -> {"name", "address"}
    [] c = "bookings" -> {"event_id", "attendee_id", "ticket_type"}

create_event(event) == Post("events", CreateSanitized("events"), event, "Event created")

get_events == List("events")

get_event(event_id) == Get("events", event_id, "Event not found")

update_event(event_id, event) ==
  Put("events", UpdateSanitized("events"), event_id, event, "Event updated", "Event not found")

delete_event(event_id) == Delete("events", event_id, "Event deleted", "Event not found")

create_attendee(attendee) ==
  Post("attendees", CreateSanitized("attendees"), attendee, "Attendee created")

get_attendees == List("attendees")

get_attendee(attendee_id) == Get("attendees", attendee_id, "Attendee not found")

update_attendee(attendee_id, attendee) ==
  Put("attendees", UpdateSanitized("attendees"), attendee_id, attendee,
      "Attendee updated", "Attendee not found")

delete_attendee(attendee_id) ==
  Delete("attendees", attendee_id, "Attendee deleted", "Attendee not found")

create_venue(venue) == Post("venues", CreateSanitized("venues"), venue, "Venue created")

get_venues == List("venues")

get_venue(venue_id) == Get("venues", venue_id, "Venue not found")

update_venue(venue_id, venue) ==
  Put("venues", UpdateSanitized("venues"), venue_id, venue, "Venue updated", "Venue not found")

delete_venue(venue_id) == Delete("venues", venue_id, "Venue deleted", "Venue not found")

create_booking(booking) ==
  Post("bookings", CreateSanitized("bookings"), booking, "Booking created")

get_bookings == List("bookings")

get_booking(booking_id) == Get("bookings", booking_id, "Booking not found")

update_booking(booking_id, booking) ==
  Put("bookings", UpdateSanitized("bookings"), booking_id, booking,
      "Booking updated", "Booking not found")

delete_booking(booking_id) ==
  Delete("bookings", booking_id, "Booking deleted", "Booking not found")

(* -------------------------- specification: Spec ----------------------- *)
\* an empty database
Init ==
  /\ store = [c \in Collections |-> <<>>]
  /\ media = <<>>
  /\ nextId = FirstId
  /\ now = 0
  /\ inflight = {}
  /\ last = NoRequest

Next ==
  \/ \E p \in EventPayloads : create_event(p)
  \/ get_events
  \/ \E id \in IdInputs : get_event(id)
  \/ \E id \in IdInputs, p \in EventPayloads : update_event(id, p)
  \/ \E id \in IdInputs : delete_event(id)
  \/ \E p \in AttendeePayloads : create_attendee(p)
  \/ get_attendees
  \/ \E id \in IdInputs : get_attendee(id)
  \/ \E id \in IdInputs, p \in AttendeePayloads : update_attendee(id, p)
  \/ \E id \in IdInputs : delete_attendee(id)
  \/ \E p \in VenuePayloads : create_venue(p)
  \/ get_venues
  \/ \E id \in IdInputs : get_venue(id)
  \/ \E id \in IdInputs, p \in VenuePayloads : update_venue(id, p)
  \/ \E id \in IdInputs : delete_venue(id)
  \/ \E p \in BookingPayloads : create_booking(p)
  \/ get_bookings
  \/ \E id \in IdInputs : get_booking(id)
  \/ \E id \in IdInputs, p \in BookingPayloads : update_booking(id, p)
  \/ \E id \in IdInputs : delete_booking(id)

Spec == Init /\ [][Next]_vars

(* ---------------------------- media inputs ---------------------------- *)
ImagePng == <<"i","m","a","g","e","/","p","n","g">>
ImageGif == <<"i","m","a","g","e","/","g","i","f">>
VideoMp4 == <<"v","i","d","e","o","/","m","p","4">>
AppPdf == <<"a","p","p","l","i","c","a","t","i","o","n","/","p","d","f">>

\* uploaded files: filename, content type as the client declares it, bytes
Files ==
  { [filename |-> <<"a",".","p","n","g">>, content_type |-> ImagePng, content |-> <<137, 80>>],
    [filename |-> <<"b",".","g","i","f">>, content_type |-> ImageGif, content |-> <<71>>],
    [filename |-> <<"c",".","m","p","4">>, content_type |-> VideoMp4, content |-> <<0, 0, 24>>],
    [filename |-> <<"d",".","p","d","f">>, content_type |-> AppPdf, content |-> <<37>>],
    [filename |-> <<"e">>, content_type |-> NoneVal, content |-> <<137, 80>>],
    [filename |-> <<"f">>, content_type |-> <<"i","m","a","g","e">>, content |-> <<>>] }

\* the event or venue id of the path; the media handlers take it as it comes
LinkIds == { <<"e","1">>, <<"e","2">> }

\* the uploads a client makes: every file for the first link id, one for the other
UploadInputs ==
  {<<l, f>> \in LinkIds \X Files : l = <<"e","1">> \/ f.content_type = ImagePng}

(* ---------------------------- media handlers -------------------------- *)
\* the filter {link_field: link_id, "media_type": media_type}
Matches(doc, link_field, link_id, media_type) ==
  /\ link_field \in DOMAIN doc
  /\ doc[link_field] = link_id
  /\ doc["media_type"] = media_type

\* find_one(filter, sort=[("uploaded_at", -1)]): a matching document with the
\* largest uploaded_at; among equal dates the store returns any one
find_latest(coll, link_field, link_id, media_type) ==
  {i \in 1..Len(coll) :
     /\ Matches(coll[i], link_field, link_id, media_type)
     /\ \A j \in 1..Len(coll) :
          Matches(coll[j], link_field, link_id, media_type)
            => coll[j]["uploaded_at"] <= coll[i]["uploaded_at"]}

\* headers={"Content-Disposition": f'inline; filename="{doc["filename"]}"'}
Disposition(filename) == <<"inline; filename=", "\"">> \o filename \o <<"\"">>

\* the name a client reads back between the quotes of the header
DispositionName(h) == SubSeq(h, 3, Len(h) - 1)

\* upload_media that keeps one document per (link, kind): a matching document
\* is overwritten by the new upload
upload_media_overwrite(link_field, link_id, media_type, file) ==
  LET doc == [f \in {link_field, "media_type", "filename", "content_type", "content",
                     "uploaded_at"} |->
                CASE f = link_field -> link_id
                  [] f = "media_type" -> media_type
                  [] f = "filename" -> file.filename
                  [] f = "content_type" -> file.content_type
                  [] f = "content" -> file.content
                  [] f = "uploaded_at" -> now]
      old == {i \in 1..Len(media) : Matches(media[i], link_field, link_id, media_type)}
  IN /\ nextId < LastId
     /\ media' = IF old = {} THEN insert_one(media, doc, nextId)
                  ELSE [media EXCEPT ![First(old)] = insert_one(<<>>, doc, nextId)[1]]
     /\ nextId' = nextId + 1
     /\ last' = Reply("upload", "media", link_id,
                      [link_field |-> link_field, media_type |-> media_type, file |-> file],
                      200, "Uploaded", TRUE, OidStr(nextId))
     /\ UNCHANGED <<store, now, inflight>>

\* upload_media: read the file, insert one document stamped datetime.utcnow()
upload_media(link_field, link_id, media_type, file) ==
  LET doc == [f \in {link_field, "media_type", "filename", "content_type", "content",
                     "uploaded_at"} |->
                CASE f = link_field -> link_id
                  [] f = "media_type" -> media_type
                  [] f = "filename" -> file.filename
                  [] f = "content_type" -> file.content_type
                  [] f = "content" -> file.content
                  [] f = "uploaded_at" -> now]
  IN /\ nextId < LastId
     /\ media' = insert_one(media, doc, nextId)
     /\ nextId' = nextId + 1
     /\ last' = Reply("upload", "media", link_id,
                      [link_field |-> link_field, media_type |-> media_type, file |-> file],
                      200, "Uploaded", TRUE, OidStr(nextId))
     /\ UNCHANGED <<store, now, inflight>>

\* the 400 of an upload endpoint whose content type check fails
RejectUpload(link_field, link_id, media_type, file, detail) ==
  /\ last' = Reply("upload", "media", link_id,
                   [link_field |-> link_field, media_type |-> media_type, file |-> file],
                   400, detail, FALSE, <<>>)
  /\ UNCHANGED <<store, media, nextId, now, inflight>>

\* stream_latest_media: the latest matching document as a streamed response, or 404
stream_latest_media(link_field, link_id, media_type) ==
  LET found == find_latest(media, link_field, link_id, media_type)
      req == [link_field |-> link_field, media_type |-> media_type]
  IN /\ IF found = {}
          THEN last' = Reply("stream", "media", link_id, req, 404, "No media found",
                             TRUE, <<>>)
          ELSE \E i \in found :
                 last' = Reply("stream", "media", link_id, req, 200, "", TRUE,
                               [content |-> media[i]["content"],
                                media_type |-> media[i]["content_type"],
                                disposition |-> Disposition(media[i]["filename"])])
     /\ UNCHANGED <<store, media, nextId, now, inflight>>

\* the content type check without the slash of the prefix
BadContentType_noslash(file, prefix) ==
  \/ file.content_type = NoneVal
  \/ file.content_type = <<>>
  \/ ~StartsWith(file.content_type, SubSeq(prefix, 1, Len(prefix) - 1))

\* not file.content_type or not file.content_type.startswith(prefix)
BadContentType(file, prefix) ==
  \/ file.content_type = NoneVal
  \/ file.content_type = <<>>
  \/ ~StartsWith(file.content_type, prefix)

upload_event_poster(event_id, file) ==
  IF BadContentType(file, <<"i","m","a","g","e","/">>)
  THEN RejectUpload("event_id", event_id, "event_poster", file, "Poster must be an image")
  ELSE upload_media("event_id", event_id, "event_poster", file)

upload_promo_video(event_id, file) ==
  IF BadContentType(file, <<"v","i","d","e","o","/">>)
  THEN RejectUpload("event_id", event_id, "promo_video", file, "Promo must be a video")
  ELSE upload_media("event_id", event_id, "promo_video", file)

upload_venue_photo(venue_id, file) ==
  IF BadContentType(file, <<"i","m","a","g","e","/">>)
  THEN RejectUpload("venue_id", venue_id, "venue_photo", file, "Venue photo must be an image")
  ELSE upload_media("venue_id", venue_id, "venue_photo", file)

get_event_poster(event_id) == stream_latest_media("event_id", event_id, "event_poster")

get_promo_video(event_id) == stream_latest_media("event_id", event_id, "promo_video")

get_venue_photo(venue_id) == stream_latest_media("venue_id", venue_id, "venue_photo")

\* GET /media/{media_id}: point lookup of one media record by its key
get_media(media_id) ==
  LET v == validate_object_id(media_id)
      r == find_one(media, v.oid)
  IN
  /\ last' =
       IF v.raised
       THEN Reply("get_media", "media", media_id, <<>>, 400, "Invalid ID format", FALSE, <<>>)
       ELSE IF ~r.found
            THEN Reply("get_media", "media", media_id, <<>>, 404, "Media not found", TRUE, <<>>)
            ELSE Reply("get_media", "media", media_id, <<>>, 200, "", TRUE, obj_to_str(r.doc))
  /\ UNCHANGED <<store, media, nextId, now, inflight>>

\* the clock reaches the next millisecond; it is followed from one upload to
\* the next, where it decides the order of uploaded_at
Tick ==
  /\ now < MaxClock
  /\ media # <<>> /\ media[Len(media)]["uploaded_at"] = now
  /\ now' = now + 1
  /\ UNCHANGED <<store, media, nextId, inflight, last>>

(* ----------------------- specification: SpecMedia --------------------- *)
NextMedia ==
  \/ \E u \in UploadInputs : upload_event_poster(u[1], u[2])
  \/ \E u \in UploadInputs : upload_promo_video(u[1], u[2])
  \/ \E u \in UploadInputs : upload_venue_photo(u[1], u[2])
  \/ \E l \in LinkIds : get_event_poster(l)
  \/ \E l \in LinkIds : get_promo_video(l)
  \/ \E l \in LinkIds : get_venue_photo(l)
  \/ \E id \in IdInputs : get_media(id)
  \/ Tick

SpecMedia == Init /\ [][NextMedia]_vars

(* ----------------------- specification: SpecList ---------------------- *)
\* a payload every sanitizer accepts
CleanPayload(c) == CHOOSE p \in Payloads(c) : ~Rejected(p, StrFields(c))

\* a database in which one collection already holds ListCap documents, created
\* earlier through its POST handler; one more ObjectId is generated in the run
InitList ==
  /\ \E c \in Collections :
       store = [d \in Collections |->
                  IF d = c
                  THEN [i \in 1..ListCap |->
                          insert_one(<<>>, CleanPayload(c), LastId - 2 - ListCap + i)[1]]
                  ELSE <<>>]
  /\ media = <<>>
  /\ nextId = LastId - 1
  /\ now = 0
  /\ inflight = {}
  /\ last = NoRequest

NextList ==
  \/ \E p \in EventPayloads : create_event(p)
  \/ get_events
  \/ \E id \in IdInputs : delete_event(id)
  \/ \E p \in AttendeePayloads : create_attendee(p)
  \/ get_attendees
  \/ \E id \in IdInputs : delete_attendee(id)
  \/ \E p \in VenuePayloads : create_venue(p)
  \/ get_venues
  \/ \E id \in IdInputs : delete_venue(id)
  \/ \E p \in BookingPayloads : create_booking(p)
  \/ get_bookings
  \/ \E id \in IdInputs : delete_booking(id)

SpecList == InitList /\ [][NextList]_vars

(* ----------------------- specification: SpecRace ---------------------- *)
\* PUT /{collection}/{id} up to its await: sanitize, validate, send update_one
PutCall(c, fields, id, p) ==
  LET v == validate_object_id(id)
      r == [coll |-> c, id |-> id, oid |-> v.oid, payload |-> p,
            set |-> Sanitized(p, fields), behind |-> {}]
  IN /\ c \in Busy
     /\ IF Rejected(p, fields)
          THEN /\ last' = Reply("update", c, id, p, 400,
                                "Invalid characters detected in input", FALSE, <<>>)
               /\ UNCHANGED <<store, media, nextId, now, inflight>>
          ELSE IF v.raised
          THEN /\ last' = Reply("update", c, id, p, 400, "Invalid ID format", FALSE, <<>>)
               /\ UNCHANGED <<store, media, nextId, now, inflight>>
          ELSE /\ Cardinality(inflight) < MaxInflight
               /\ \A q \in inflight : <<q.coll, q.id, q.payload>> # <<c, id, p>>
               /\ inflight' = inflight \cup {r}
               /\ UNCHANGED <<store, media, nextId, now, last>>

\* the database applies one update_one that is in flight and the handler that
\* awaits it answers from matched_count; r.behind collects the payloads of the
\* calls on the same key that were in flight together with r and applied before it
PutReturn(r, updated, notfound) ==
  LET result == update_one(store[r.coll], r.oid, r.set) IN
  /\ r \in inflight
  /\ inflight' =
       {[q EXCEPT !.behind =
           IF q.coll = r.coll /\ q.oid = r.oid /\ result.matched_count = 1
           THEN @ \cup {r.payload} ELSE @] :
          q \in inflight \ {r}}
  /\ store' = [store EXCEPT ![r.coll] = result.coll]
  /\ last' = IF result.matched_count = 0
               THEN Reply("update", r.coll, r.id, r.payload, 404, notfound, TRUE, r.behind)
               ELSE Reply("update", r.coll, r.id, r.payload, 200, updated, TRUE, r.behind)
  /\ UNCHANGED <<media, nextId, now>>

\* an empty database in which one more ObjectId is generated
InitRace ==
  /\ store = [c \in Collections |-> <<>>]
  /\ media = <<>>
  /\ nextId = LastId - 1
  /\ now = 0
  /\ inflight = {}
  /\ last = NoRequest

NextRace ==
  \/ \E p \in EventPayloads : create_event(p)
  \/ \E p \in AttendeePayloads : create_attendee(p)
  \/ \E p \in VenuePayloads : create_venue(p)
  \/ \E p \in BookingPayloads : create_booking(p)
  \/ \E id \in IdInputs, p \in EventPayloads :
       PutCall("events", UpdateSanitized("events"), id, p)
  \/ \E id \in IdInputs, p \in AttendeePayloads :
       PutCall("attendees", UpdateSanitized("attendees"), id, p)
  \/ \E id \in IdInputs, p \in VenuePayloads :
       PutCall("venues", UpdateSanitized("venues"), id, p)
  \/ \E id \in IdInputs, p \in BookingPayloads :
       PutCall("bookings", UpdateSanitized("bookings"), id, p)
  \/ \E r \in inflight : r.coll = "events" /\ PutReturn(r, "Event updated", "Event not found")
  \/ \E r \in inflight :
       r.coll = "attendees" /\ PutReturn(r, "Attendee updated", "Attendee not found")
  \/ \E r \in inflight : r.coll = "venues" /\ PutReturn(r, "Venue updated", "Venue not found")
  \/ \E r \in inflight :
       r.coll = "bookings" /\ PutReturn(r, "Booking updated", "Booking not found")

SpecRace == InitRace /\ [][NextRace]_vars

(* ------------------------------ properties ---------------------------- *)
\* an identifier string that parses into a key: OidLen hex digits
WellFormed(id) == Len(id) = OidLen /\ \A i \in 1..Len(id) : id[i] \in HexChars

\* a string with one of the two reserved characters
Reserved(v) == v # NoneVal /\ \E i \in 1..Len(v) : v[i] \in {"$", "."}

\* a PUT body the handler of collection c rejects
PutRejects(c, p) == \E f \in UpdateSanitized(c) : Reserved(p[f])

\* C5 as stated: a get, replace or delete with a malformed path id fails with
\* MalformedIdentifier (400 "Invalid ID format") before any store access and
\* leaves the store unchanged.
C5_AsStated ==
  [][(last'.op \in {"get", "update", "delete"} /\ ~WellFormed(last'.id))
       => /\ last'.status = 400
          /\ last'.detail = "Invalid ID format"
          /\ ~last'.touched
          /\ store' = store /\ media' = media]_vars

\* C5 amended: a get, replace or delete with a malformed path id fails with a
\* client error (400) before any store access and leaves the store unchanged;
\* the error is MalformedIdentifier, except for a replace whose body has a
\* reserved character in a sanitized field, which fails with InvalidInput.
C5_MalformedIdRejected ==
  [][(last'.op \in {"get", "update", "delete"} /\ ~WellFormed(last'.id))
       => /\ last'.status = 400
          /\ last'.detail =
               IF last'.op = "update" /\ PutRejects(last'.coll, last'.payload)
               THEN "Invalid characters detected in input"
               ELSE "Invalid ID format"
          /\ ~last'.touched
          /\ store' = store /\ media' = media]_vars

\* a replace with a malformed id and a clean body was answered "Invalid ID format"
\* while the collection holds a document
C5_Witness ==
  /\ last.op = "update" /\ ~WellFormed(last.id)
  /\ ~PutRejects(last.coll, last.payload)
  /\ last.status = 400 /\ last.detail = "Invalid ID format"
  /\ store[last.coll] # <<>>

\* C6 as stated: get, replace and delete with a well-formed key that is not in
\* the collection fail with NotFound (404) and leave the store unchanged.
C6_AsStated ==
  [][(/\ last'.op \in {"get", "update", "delete"}
      /\ WellFormed(last'.id)
      /\ FromHex(last'.id) \notin Keys(store[last'.coll]))
       => (last'.status = 404 /\ store' = store)]_vars

\* C6 amended: get, delete, and a replace whose body the sanitizer accepts, with
\* a well-formed key that is not in the collection, fail with NotFound (404); a
\* replace whose body has a reserved character in a sanitized field fails with
\* InvalidInput (400) instead. In every case the store is unchanged (replace
\* creates nothing), and a successful delete leaves the key absent, so a second
\* delete of it fails with NotFound.
C6_AbsentKeyNotFound ==
  [][/\ (/\ last'.op \in {"get", "update", "delete"}
         /\ WellFormed(last'.id)
         /\ FromHex(last'.id) \notin Keys(store[last'.coll]))
          => /\ store' = store
             /\ last'.status =
                  IF last'.op = "update" /\ PutRejects(last'.coll, last'.payload)
                  THEN 400 ELSE 404
     /\ (last'.op = "delete" /\ last'.status = 200)
          => FromHex(last'.id) \notin Keys(store'[last'.coll])]_vars

\* a delete of a key that was handed out earlier and is gone was answered 404,
\* while the collection still holds another document
C6_Witness ==
  /\ last.op = "delete" /\ last.status = 404
  /\ WellFormed(last.id)
  /\ FromHex(last.id) \in FirstId..(nextId - 1)
  /\ store[last.coll] # <<>>

\* C7: after a create of a valid payload, get with the returned key returns the
\* payload field for field with the key filled in; keys are unique within a
\* collection; and a document keeps its key: a replace changes no key and only
\* a delete removes one.
C7_CreateGetRoundTrip ==
  [][/\ (last'.op = "create" /\ last'.status = 200)
          => LET v == validate_object_id(last'.body)
                 r == find_one(store'[last'.coll], v.oid)
                 got == obj_to_str(r.doc)
             IN /\ ~v.raised /\ r.found
                /\ DOMAIN got = DOMAIN last'.payload \cup {"_id"}
                /\ got["_id"] = last'.body
                /\ \A f \in DOMAIN last'.payload : got[f] = last'.payload[f]
     /\ \A c \in Collections :
          /\ \A i, j \in 1..Len(store'[c]) :
               store'[c][i]["_id"] = store'[c][j]["_id"] => i = j
          /\ last'.op = "update"
               => [i \in 1..Len(store'[c]) |-> store'[c][i]["_id"]]
                    = [i \in 1..Len(store[c]) |-> store[c][i]["_id"]]
          /\ last'.op # "delete" => Keys(store[c]) \subseteq Keys(store'[c])]_vars

\* a second document was created in a collection and its key returned
C7_Witness ==
  /\ last.op = "create" /\ last.status = 200
  /\ Len(store[last.coll]) >= 2
  /\ FromHex(last.body) \in Keys(store[last.coll])

\* C8 as stated: no stored event, attendee, venue or booking holds a string
\* field with `$` or `.` in it.
C8_NoReservedStored ==
  \A c \in Collections : \A i \in 1..Len(store[c]) : \A f \in StrFields(c) :
    ~Reserved(store[c][i][f])

\* the documents of db.media that match a (link field, link id, media kind)
MatchingMedia(link_field, link_id, media_type) ==
  {i \in 1..Len(media) : Matches(media[i], link_field, link_id, media_type)}

\* C1 as stated: retrieve latest fails with NotFound exactly when no document
\* matches the triple, and otherwise returns the content of the matching
\* document with the largest uploaded_at, the later insertion winning a tie.
C1_LatestReturned ==
  last.op = "stream" =>
    LET M == MatchingMedia(last.payload.link_field, last.id, last.payload.media_type)
        top == CHOOSE i \in M : \A j \in M :
                 \/ media[j]["uploaded_at"] < media[i]["uploaded_at"]
                 \/ media[j]["uploaded_at"] = media[i]["uploaded_at"] /\ j <= i
    IN IF M = {} THEN last.status = 404
       ELSE last.status = 200 /\ last.body.content = media[top]["content"]

\* C2: an upload leaves every stored media document in place and unchanged, no
\* handler removes one, every stored document is found under its own key, and
\* retrieve by id answers with the document of that key or with NotFound.
C2_MediaRetained ==
  [][/\ Len(media') >= Len(media)
     /\ \A i \in 1..Len(media) : media'[i] = media[i]
     /\ media' # media =>
          \A i \in 1..Len(media') :
            LET v == validate_object_id(OidStr(media'[i]["_id"]))
                r == find_one(media', v.oid)
            IN ~v.raised /\ r.found /\ r.doc = media'[i]
     /\ (last'.op = "get_media" /\ WellFormed(last'.id))
          => IF FromHex(last'.id) \in Keys(media)
             THEN /\ last'.status = 200
                  /\ \E i \in 1..Len(media) : last'.body = obj_to_str(media[i])
                  /\ last'.body["_id"] = OidStr(FromHex(last'.id))
             ELSE last'.status = 404]_vars

\* the first of two uploads was retrieved by its id after the second upload
C2_Witness ==
  /\ Len(media) >= 2
  /\ last.op = "get_media" /\ last.status = 200
  /\ last.body = obj_to_str(media[1])

\* the content type prefix an upload endpoint requires for its media kind
ExpectedPrefix(media_type) ==
  IF media_type = "promo_video" THEN <<"v","i","d","e","o","/">>
  ELSE <<"i","m","a","g","e","/">>

\* C3: every stored media document has a content type with the prefix of its
\* media kind; an upload whose content type is missing or lacks the prefix is
\* answered 400 and stores nothing; any other upload is answered 200 with the
\* key of the one document it adds.
C3_MediaTypeMatchesKind ==
  [][/\ \A i \in 1..Len(media') :
          StartsWith(media'[i]["content_type"], ExpectedPrefix(media'[i]["media_type"]))
     /\ (last'.op = "upload" /\ now' = now) =>
          LET ct == last'.payload.file.content_type IN
          IF ct # NoneVal /\ StartsWith(ct, ExpectedPrefix(last'.payload.media_type))
          THEN /\ last'.status = 200
               /\ Len(media') = Len(media) + 1
               /\ SubSeq(media', 1, Len(media)) = media
               /\ WellFormed(last'.body)
               /\ media'[Len(media')]["_id"] = FromHex(last'.body)
               /\ media'[Len(media')]["content_type"] = ct
          ELSE /\ last'.status = 400
               /\ media' = media /\ store' = store /\ nextId' = nextId]_vars

\* a PDF sent to the poster endpoint was refused while a PNG poster is stored
C3_Witness ==
  /\ last.op = "upload" /\ last.status = 400
  /\ last.payload.media_type = "event_poster"
  /\ last.payload.file.content_type = AppPdf
  /\ \E i \in 1..Len(media) :
       media[i]["media_type"] = "event_poster" /\ media[i]["content_type"] = ImagePng

\* C4 as stated: an upload followed at once by retrieve latest for the same
\* (link id, media kind) yields the uploaded bytes, content type and filename.
C4_RoundTrip ==
  [][(/\ last.op = "upload" /\ last.status = 200
      /\ last'.op = "stream"
      /\ last'.id = last.id
      /\ last'.payload.link_field = last.payload.link_field
      /\ last'.payload.media_type = last.payload.media_type)
       => /\ last'.status = 200
          /\ last'.body.content = last.payload.file.content
          /\ last'.body.media_type = last.payload.file.content_type
          /\ DispositionName(last'.body.disposition) = last.payload.file.filename]_vars

====
